---- MODULE Spec2Model ----
(***************************************************************************)
(* FuzzDriller (src/driller.py): the interactive menu, the FuzzDriller     *)
(* object, the probing run executed by asyncio's cooperative scheduler and *)
(* the download phase.  Spec is the program from its start; UrlSpec is the *)
(* program from a configured menu, over every short target and path.       *)
(*                                                                         *)
(* Strings that the program computes with (target, paths, URLs) are        *)
(* sequences of one-character strings; values that are only stored and     *)
(* compared (file names, header and cookie mappings, HTTP verbs) are TLA+  *)
(* strings.                                                                *)
(***************************************************************************)
EXTENDS Integers, Sequences, FiniteSets, TLC

VARIABLES
    base_url,            \* interactive_menu locals, lines 196-202
    wordlist,
    output_file,
    headers,
    cookies,
    methods,
    valid_status_codes,
    pc,                  \* position of the process
    error,               \* the exception that ended the process, if any
    report,              \* what _save_results logged for the object `fuzzer`
    fuzzer,              \* the FuzzDriller object bound to `fuzzer`
    tasks,               \* the _bound_fetch tasks handed to asyncio.gather
    sem,                 \* free slots of asyncio.Semaphore, line 89
    cur,                 \* the task that is running between two awaits
    files,               \* the report files on disk
    dl_tasks,            \* URLs given a download_content task, line 166
    wordlists,           \* the wordlist files on disk
    artifacts,           \* the files under downloaded_pages, lines 139-143
    choice               \* the menu choice read last, line 206

vars == <<base_url, wordlist, output_file, headers, cookies, methods,
          valid_status_codes, pc, error, report, fuzzer, tasks, sem, cur,
          files, dl_tasks, wordlists, artifacts, choice>>

\* Everything but the menu choice.
others == <<base_url, wordlist, output_file, headers, cookies, methods,
            valid_status_codes, pc, error, report, fuzzer, tasks, sem, cur,
            files, dl_tasks, wordlists, artifacts>>

config == <<base_url, wordlist, output_file, headers, cookies, methods,
            valid_status_codes>>

----------------------------------------------------------------------------
(* Module constants, lines 12-20.                                          *)

DEFAULT_WORDLIST == "Wordlist/pro_100.txt"
DEFAULT_OUTPUT == "endpoints.txt"
DEFAULT_HEADERS == "{}"
DEFAULT_COOKIES == "{}"
VALID_STATUS_CODES == (200 .. 299) \cup {401, 403}
DEFAULT_METHODS == <<"HEAD">>

\* Capacity of the admission gate.  The program sets 100; the model runs
\* with MaxSlots slots so that runs with more Candidates than slots are
\* explored.
MaxSlots == 2
MAX_CONCURRENT_REQUESTS == MaxSlots

\* The builtin path list.  The program has five entries; the model keeps the
\* first so that a run stays small.
COMMON_PATHS == << <<"/", "a", "d", "m", "i", "n">> >>

None == <<>>
NoTask == <<>>

----------------------------------------------------------------------------
(* The environment: what the operator may type and what the file system    *)
(* and the target server may hold.                                         *)

TargetInputs == { <<>>, <<"h", "/">> }
WordlistInputs == { "", "w.txt" }
OutputInputs == { "", "out.txt" }
JsonInputs == { "", "{ }", "{A" }
MethodInputs == { <<>>, <<"HEAD", "GET">> }
StatusInputs == { <<>>, <<"404">>, <<"2xx">> }
OtherChoices == { "9" }

OutputFiles == { DEFAULT_OUTPUT, "out.txt" }
Absent == [exists |-> FALSE, lines |-> <<>>]
StaleReport == [exists |-> TRUE, lines |-> << <<"o", "l", "d">> >>]

\* The wordlist files that exist and their lines, already stripped; the file
\* at DEFAULT_WORDLIST does not exist.
WordlistFiles == [name \in {"w.txt"} |-> << <<"b">>, <<>> >>]
WordlistExists(name) == name \in DOMAIN wordlists
WordlistLines(name) == wordlists[name]

\* Status codes the target answers with.
StatusCodes == {200, 404}

\* What the target answers to the GET of download_content: the builtin path
\* is an HTML page, anything else a binary.
GetAnswer(url) ==
    IF \E i \in DOMAIN url : url[i] = "a"
    THEN [status |-> 200, content_type |-> <<"text/html", "charset=utf-8">>]
    ELSE [status |-> 200, content_type |-> <<"application/octet-stream">>]

----------------------------------------------------------------------------
(* Python string and collection operations used by the program.            *)

Ord(c) ==
    CASE c = "/" -> 47
      [] c = "a" -> 97
      [] c = "b" -> 98
      [] c = "d" -> 100
      [] c = "h" -> 104
      [] c = "i" -> 105
      [] c = "l" -> 108
      [] c = "m" -> 109
      [] c = "n" -> 110
      [] c = "o" -> 111

RECURSIVE rstrip(_)
rstrip(s) ==
    IF s # <<>> /\ s[Len(s)] = "/" THEN rstrip(SubSeq(s, 1, Len(s) - 1))
    ELSE s

RECURSIVE lstrip(_)
lstrip(s) ==
    IF s # <<>> /\ s[1] = "/" THEN lstrip(Tail(s)) ELSE s

\* Python's order on str: code point by code point, a proper prefix first.
RECURSIVE StrLess(_, _)
StrLess(a, b) ==
    IF b = <<>> THEN FALSE
    ELSE IF a = <<>> THEN TRUE
    ELSE IF a[1] # b[1] THEN Ord(a[1]) < Ord(b[1])
    ELSE StrLess(Tail(a), Tail(b))

RECURSIVE sorted(_)
sorted(S) ==
    IF S = {} THEN <<>>
    ELSE LET m == CHOOSE x \in S : \A y \in S \ {x} : StrLess(x, y)
         IN  <<m>> \o sorted(S \ {m})

Range(s) == { s[i] : i \in DOMAIN s }

\* json.loads, lines 231 and 234: the mapping, or JSONDecodeError.
JsonOk(text) == text = "{ }"
JsonLoads(text) == "{}"

\* int(), line 240: the number, or ValueError.
IntOk(token) == token \in {"200", "404"}
ParseInt(token) == IF token = "200" THEN 200 ELSE 404

----------------------------------------------------------------------------
(* class FuzzDriller                                                       *)

NoFuzzer ==
    [bound |-> FALSE, base_url |-> <<>>, wordlist |-> "", output_file |-> "",
     methods |-> <<>>, valid_status_codes |-> {}, found_endpoints |-> {},
     session |-> "None", total_tasks |-> 0, completed_tasks |-> 0]

\* FuzzDriller.__init__, lines 57-68.
NewFuzzer(b, w, o, m, v) ==
    [bound |-> TRUE, base_url |-> rstrip(b), wordlist |-> w,
     output_file |-> o, methods |-> m, valid_status_codes |-> v,
     found_endpoints |-> {}, session |-> "None", total_tasks |-> 0,
     completed_tasks |-> 0]

\* Mutant of Url: the path is joined as it is.
UrlJoinRaw(base, path) == base \o <<"/">> \o path

\* _fetch, line 72.
Url(base, path) == base \o <<"/">> \o lstrip(path)

\* _load_wordlist, lines 103-111: the set of unique paths.
LoadWordlist(name) ==
    (IF WordlistExists(name)
     THEN { l \in Range(WordlistLines(name)) : l # <<>> }
     ELSE {})
        \cup Range(COMMON_PATHS)

NoOutcome == [kind |-> "none", status |-> 0]
Failure == [kind |-> "failure", status |-> 0]
Response(s) == [kind |-> "status", status |-> s]

\* A _bound_fetch task: its position, its outcome, the requests it has
\* issued and the local `url` of _fetch, line 72.
NewTask == [st |-> "pending", outcome |-> NoOutcome, reqs |-> 0, url |-> <<>>]
NoTasks == [c \in {} |-> NewTask]
Candidates == DOMAIN tasks
UrlOf(c) == Url(fuzzer.base_url, c[1])

\* The slots of the gate that are taken.
Holding(c) == tasks[c].st \in {"inflight", "handled", "counted"}

\* Mutant of Confirmed: the module default is consulted, not the policy of
\* the object.
ConfirmedByDefault(status, policy) == status \in VALID_STATUS_CODES

\* _fetch, line 75.
Confirmed(status, policy) == status \in policy

\* Mutant of SetAdd: a URL that is already present is dropped again.
SetAddFlip(S, u) == IF u \in S THEN S \ {u} ELSE S \cup {u}

\* set.add, line 77.
SetAdd(S, u) == S \cup {u}

----------------------------------------------------------------------------
Init ==
    /\ base_url = None
    /\ wordlist = DEFAULT_WORDLIST
    /\ output_file = DEFAULT_OUTPUT
    /\ headers = DEFAULT_HEADERS
    /\ cookies = DEFAULT_COOKIES
    /\ methods = DEFAULT_METHODS
    /\ valid_status_codes = VALID_STATUS_CODES
    /\ pc = "menu"
    /\ error = "none"
    /\ report = "none"
    /\ fuzzer = NoFuzzer
    /\ tasks = NoTasks
    /\ sem = MAX_CONCURRENT_REQUESTS
    /\ cur = NoTask
    /\ files = [f \in OutputFiles |->
                  IF f = DEFAULT_OUTPUT THEN Absent ELSE StaleReport]
    /\ dl_tasks = {}
    /\ wordlists = WordlistFiles
    /\ artifacts = {}
    /\ choice = ""

----------------------------------------------------------------------------
(* interactive_menu, choice 1, lines 208-222.                              *)

Choice1NoTarget ==
    /\ pc = "menu"
    /\ choice' = "1"
    /\ base_url = None
    /\ UNCHANGED others

\* Mutant of Choice1Start: the new object shares the set of endpoints of
\* the object before it.
Choice1StartSharedSet ==
    /\ pc = "menu"
    /\ choice' = "1"
    /\ base_url # None
    /\ fuzzer' = [NewFuzzer(base_url, wordlist, output_file, methods,
                            valid_status_codes)
                      EXCEPT !.session = "open",
                             !.found_endpoints = fuzzer.found_endpoints]
    /\ report' = "none"
    /\ pc' = "start"
    /\ UNCHANGED <<config, error, tasks, sem, cur, files, dl_tasks, wordlists,
                   artifacts>>

\* Mutant of Choice1Start: the run starts whether or not a target is set.
Choice1StartUnguarded ==
    /\ pc = "menu"
    /\ choice' = "1"
    /\ fuzzer' = [NewFuzzer(base_url, wordlist, output_file, methods,
                            valid_status_codes) EXCEPT !.session = "open"]
    /\ report' = "none"
    /\ pc' = "start"
    /\ UNCHANGED <<config, error, tasks, sem, cur, files, dl_tasks, wordlists,
                   artifacts>>

\* Lines 212-222 and start() up to the call of _process_paths, line 119.
Choice1Start ==
    /\ pc = "menu"
    /\ choice' = "1"
    /\ base_url # None
    /\ fuzzer' = [NewFuzzer(base_url, wordlist, output_file, methods,
                            valid_status_codes) EXCEPT !.session = "open"]
    /\ report' = "none"
    /\ pc' = "start"
    /\ UNCHANGED <<config, error, tasks, sem, cur, files, dl_tasks, wordlists,
                   artifacts>>

\* Mutant of ProcessPaths: total_tasks counts the paths, not the pairs.
ProcessPathsCountsPaths ==
    /\ pc = "start"
    /\ LET paths == LoadWordlist(fuzzer.wordlist)
       IN  /\ sem' = MAX_CONCURRENT_REQUESTS
           /\ fuzzer' = [fuzzer EXCEPT !.total_tasks = Cardinality(paths)]
           /\ tasks' = [c \in paths \X (1 .. Len(fuzzer.methods)) |-> NewTask]
    /\ pc' = "gather"
    /\ UNCHANGED <<config, error, report, cur, files, dl_tasks, wordlists,
                   artifacts, choice>>

\* _process_paths, lines 89-101, up to the await of asyncio.gather.
ProcessPaths ==
    /\ pc = "start"
    /\ LET paths == LoadWordlist(fuzzer.wordlist)
           total == Cardinality(paths) * Len(fuzzer.methods)
       IN  /\ sem' = MAX_CONCURRENT_REQUESTS
           /\ fuzzer' = [fuzzer EXCEPT !.total_tasks = total]
           /\ tasks' = [c \in paths \X (1 .. Len(fuzzer.methods)) |-> NewTask]
    /\ pc' = "gather"
    /\ UNCHANGED <<config, error, report, cur, files,
                   dl_tasks, wordlists, artifacts, choice>>

\* Mutant of Acquire: the task does not wait for a free slot.
AcquireUngated(c) ==
    /\ pc = "gather"
    /\ cur = NoTask
    /\ tasks[c].st = "pending"
    /\ sem' = sem - 1
    /\ tasks' = [tasks EXCEPT ![c].st = "inflight",
                              ![c].reqs = @ + 1,
                              ![c].url = Url(fuzzer.base_url, c[1])]
    /\ UNCHANGED <<config, pc, error, report, fuzzer, cur, files,
                   dl_tasks, wordlists, artifacts, choice>>

\* _bound_fetch, line 93: the task enters the gate, and _fetch runs to the
\* await of the response, line 74.
Acquire(c) ==
    /\ pc = "gather"
    /\ cur = NoTask
    /\ tasks[c].st = "pending"
    /\ sem > 0
    /\ sem' = sem - 1
    /\ tasks' = [tasks EXCEPT ![c].st = "inflight",
                              ![c].reqs = @ + 1,
                              ![c].url = Url(fuzzer.base_url, c[1])]
    /\ UNCHANGED <<config, pc, error, report, fuzzer, cur, files,
                   dl_tasks, wordlists, artifacts, choice>>

\* Mutant of Respond: a response outside the policy takes the URL out of
\* found_endpoints.
RespondLatestWins(c, status) ==
    /\ pc = "gather"
    /\ cur = NoTask
    /\ tasks[c].st = "inflight"
    /\ tasks' = [tasks EXCEPT ![c].st = "handled",
                              ![c].outcome = Response(status)]
    /\ fuzzer' = IF Confirmed(status, fuzzer.valid_status_codes)
                 THEN [fuzzer EXCEPT
                          !.found_endpoints = SetAdd(@, tasks[c].url)]
                 ELSE [fuzzer EXCEPT !.found_endpoints = @ \ {tasks[c].url}]
    /\ cur' = c
    /\ UNCHANGED <<config, pc, error, report, sem, files, dl_tasks, wordlists,
                   artifacts, choice>>

\* _fetch, lines 74-78: the response arrives and is classified.
Respond(c, status) ==
    /\ pc = "gather"
    /\ cur = NoTask
    /\ tasks[c].st = "inflight"
    /\ tasks' = [tasks EXCEPT ![c].st = "handled",
                              ![c].outcome = Response(status)]
    /\ fuzzer' = IF Confirmed(status, fuzzer.valid_status_codes)
                 THEN [fuzzer EXCEPT
                          !.found_endpoints = SetAdd(@, tasks[c].url)]
                 ELSE fuzzer
    /\ cur' = c
    /\ UNCHANGED <<config, pc, error, report, sem, files,
                   dl_tasks, wordlists, artifacts, choice>>

\* Mutant of Fail: a request that raised is issued once more.
FailRetry(c) ==
    /\ pc = "gather"
    /\ cur = NoTask
    /\ tasks[c].st = "inflight"
    /\ tasks[c].reqs < 2
    /\ tasks' = [tasks EXCEPT ![c].reqs = @ + 1]
    /\ UNCHANGED <<config, pc, error, report, fuzzer, sem, cur, files,
                   dl_tasks, wordlists, artifacts, choice>>

\* Mutant of Fail: the exception is not caught in _fetch and leaves gather,
\* start and the menu.
FailPropagates(c) ==
    /\ pc = "gather"
    /\ cur = NoTask
    /\ tasks[c].st = "inflight"
    /\ tasks' = [tasks EXCEPT ![c].st = "handled", ![c].outcome = Failure]
    /\ pc' = "crashed"
    /\ error' = "ClientError"
    /\ UNCHANGED <<config, report, fuzzer, sem, cur, files,
                   dl_tasks, wordlists, artifacts, choice>>

\* _fetch, lines 79-80: the request raised; the exception is logged.
Fail(c) ==
    /\ pc = "gather"
    /\ cur = NoTask
    /\ tasks[c].st = "inflight"
    /\ tasks' = [tasks EXCEPT ![c].st = "handled", ![c].outcome = Failure]
    /\ cur' = c
    /\ UNCHANGED <<config, pc, error, report, fuzzer, sem, files,
                   dl_tasks, wordlists, artifacts, choice>>

\* Mutant of Finally: a response is counted in the try body and again in
\* the finally block.
FinallyTwice(c) ==
    /\ pc = "gather"
    /\ cur = c
    /\ tasks[c].st = "handled"
    /\ fuzzer' = IF tasks[c].outcome = Failure
                 THEN [fuzzer EXCEPT !.completed_tasks = @ + 1]
                 ELSE [fuzzer EXCEPT !.completed_tasks = @ + 2]
    /\ tasks' = [tasks EXCEPT ![c].st = "counted"]
    /\ UNCHANGED <<config, pc, error, report, sem, cur, files, dl_tasks,
                   wordlists, artifacts, choice>>

\* Mutant of Finally: the count is kept in the try body, so a request that
\* raised is not counted.
FinallyInTry(c) ==
    /\ pc = "gather"
    /\ cur = c
    /\ tasks[c].st = "handled"
    /\ fuzzer' = IF tasks[c].outcome = Failure THEN fuzzer
                 ELSE [fuzzer EXCEPT !.completed_tasks = @ + 1]
    /\ tasks' = [tasks EXCEPT ![c].st = "counted"]
    /\ UNCHANGED <<config, pc, error, report, sem, cur, files,
                   dl_tasks, wordlists, artifacts, choice>>

\* _fetch, lines 82-85: the finally block.
Finally(c) ==
    /\ pc = "gather"
    /\ cur = c
    /\ tasks[c].st = "handled"
    /\ fuzzer' = [fuzzer EXCEPT !.completed_tasks = @ + 1]
    /\ tasks' = [tasks EXCEPT ![c].st = "counted"]
    /\ UNCHANGED <<config, pc, error, report, sem, cur, files,
                   dl_tasks, wordlists, artifacts, choice>>

\* Mutant of Release: the slot is given back on the normal path only.
ReleaseUnlessFailed(c) ==
    /\ pc = "gather"
    /\ cur = c
    /\ tasks[c].st = "counted"
    /\ sem' = IF tasks[c].outcome = Failure THEN sem ELSE sem + 1
    /\ tasks' = [tasks EXCEPT ![c].st = "done"]
    /\ cur' = NoTask
    /\ UNCHANGED <<config, pc, error, report, fuzzer, files,
                   dl_tasks, wordlists, artifacts, choice>>

\* _bound_fetch, lines 93-94: leaving `async with sem`; the task returns.
Release(c) ==
    /\ pc = "gather"
    /\ cur = c
    /\ tasks[c].st = "counted"
    /\ sem' = sem + 1
    /\ tasks' = [tasks EXCEPT ![c].st = "done"]
    /\ cur' = NoTask
    /\ UNCHANGED <<config, pc, error, report, fuzzer, files,
                   dl_tasks, wordlists, artifacts, choice>>

\* Mutant of Barrier: the wait is over when the first task has returned.
BarrierFirstCompleted ==
    /\ pc = "gather"
    /\ cur = NoTask
    /\ \E c \in Candidates : tasks[c].st = "done"
    /\ pc' = "barrier"
    /\ UNCHANGED <<config, error, report, fuzzer, tasks, sem, cur, files,
                   dl_tasks, wordlists, artifacts, choice>>

\* asyncio.gather returns, line 101.
Barrier ==
    /\ pc = "gather"
    /\ \A c \in Candidates : tasks[c].st = "done"
    /\ pc' = "barrier"
    /\ UNCHANGED <<config, error, report, fuzzer, tasks, sem, cur, files,
                   dl_tasks, wordlists, artifacts, choice>>

\* _save_results, lines 124-126.
SaveNothing ==
    /\ pc = "barrier"
    /\ fuzzer.found_endpoints = {}
    /\ report' = "No endpoints discovered."
    /\ pc' = "saved"
    /\ UNCHANGED <<config, error, fuzzer, tasks, sem, cur, files,
                   dl_tasks, wordlists, artifacts, choice>>

\* Mutant of WriteReport: the file is opened for appending.
AppendReport(old, found) ==
    [exists |-> TRUE, lines |-> old.lines \o sorted(found)]

\* open(file, 'w') and the writes, lines 127-129.
WriteReport(old, found) == [exists |-> TRUE, lines |-> sorted(found)]

\* _save_results, lines 127-130.
SaveReport ==
    /\ pc = "barrier"
    /\ fuzzer.found_endpoints # {}
    /\ files' = [files EXCEPT ![fuzzer.output_file] =
                    WriteReport(@, fuzzer.found_endpoints)]
    /\ report' = "Results saved."
    /\ pc' = "saved"
    /\ UNCHANGED <<config, error, fuzzer, tasks, sem, cur,
                   dl_tasks, wordlists, artifacts, choice>>

\* open(), line 127, raises OSError (no such directory, no permission);
\* nothing between it and the top level of the process catches it.
SaveFails ==
    /\ pc = "barrier"
    /\ fuzzer.found_endpoints # {}
    /\ error' = "OSError"
    /\ pc' = "crashed"
    /\ fuzzer' = [fuzzer EXCEPT !.session = "closed"]
    /\ UNCHANGED <<config, report, tasks, sem, cur, files,
                   dl_tasks, wordlists, artifacts, choice>>

\* Mutant of StartReturns: the results are cleared when start() returns.
StartReturnsCleared ==
    /\ pc = "saved"
    /\ pc' = "menu"
    /\ tasks' = NoTasks
    /\ fuzzer' = [fuzzer EXCEPT !.session = "closed", !.found_endpoints = {},
                                !.completed_tasks = 0]
    /\ UNCHANGED <<config, error, report, sem, cur, files, dl_tasks,
                   wordlists, artifacts, choice>>

\* start() and asyncio.run return, lines 117-120 and 222: the session is
\* closed and the locals of _process_paths are gone.
StartReturns ==
    /\ pc = "saved"
    /\ pc' = "menu"
    /\ tasks' = NoTasks
    /\ fuzzer' = [fuzzer EXCEPT !.session = "closed"]
    /\ UNCHANGED <<config, error, report, sem, cur, files,
                   dl_tasks, wordlists, artifacts, choice>>

----------------------------------------------------------------------------
(* interactive_menu, choice 2, lines 224-241.  The seven prompts are read  *)
(* and assigned in order; an exception of json.loads or int() leaves the   *)
(* loop and the function, with the assignments made so far done.           *)

\* `input(...).strip() or old`, lines 226-228.
OrOld(typed, blank, old) == IF typed = blank THEN old ELSE typed

HeadersRaise(h) == h # "" /\ ~JsonOk(h)
CookiesRaise(h, k) == ~HeadersRaise(h) /\ k # "" /\ ~JsonOk(k)
StatusRaise(h, k, s) ==
    /\ ~HeadersRaise(h)
    /\ ~CookiesRaise(h, k)
    /\ \E i \in DOMAIN s : ~IntOk(s[i])

Choice2(b, w, o, h, k, m, s) ==
    /\ pc = "menu"
    /\ choice' = "2"
    /\ base_url' = OrOld(b, <<>>, base_url)
    /\ wordlist' = OrOld(w, "", wordlist)
    /\ output_file' = OrOld(o, "", output_file)
    /\ headers' = IF h # "" /\ JsonOk(h) THEN JsonLoads(h) ELSE headers
    /\ cookies' = IF ~HeadersRaise(h) /\ k # "" /\ JsonOk(k)
                  THEN JsonLoads(k) ELSE cookies
    /\ methods' = IF ~HeadersRaise(h) /\ ~CookiesRaise(h, k) /\ m # <<>>
                  THEN m ELSE methods
    /\ valid_status_codes' =
          IF /\ ~HeadersRaise(h) /\ ~CookiesRaise(h, k)
             /\ ~StatusRaise(h, k, s) /\ s # <<>>
          THEN { ParseInt(s[i]) : i \in DOMAIN s }
          ELSE valid_status_codes
    /\ IF HeadersRaise(h) \/ CookiesRaise(h, k)
       THEN /\ pc' = "crashed"
            /\ error' = "JSONDecodeError"
       ELSE IF StatusRaise(h, k, s)
       THEN /\ pc' = "crashed"
            /\ error' = "ValueError"
       ELSE /\ pc' = "menu"
            /\ error' = error
    /\ UNCHANGED <<report, fuzzer, tasks, sem, cur, files,
                   dl_tasks, wordlists,
                   artifacts>>

\* Choice 3, lines 243-252: the configuration is printed.
Choice3 ==
    /\ pc = "menu"
    /\ choice' = "3"
    /\ UNCHANGED others

\* Choice 4, lines 254-257.
Choice4NoTarget ==
    /\ pc = "menu"
    /\ choice' = "4"
    /\ base_url = None
    /\ UNCHANGED others

\* `needle in content_type`, lines 151-155; a content type is the sequence
\* of its parts.
Contains(content_type, needle) ==
    \E i \in DOMAIN content_type : content_type[i] = needle

\* _get_file_extension, lines 149-157.
GetFileExtension(content_type) ==
    IF Contains(content_type, "text/html") THEN "html"
    ELSE IF Contains(content_type, "application/javascript") THEN "js"
    ELSE IF \/ Contains(content_type, "application/x-httpd-php")
            \/ Contains(content_type, "text/x-php") THEN "php"
    ELSE "None"

\* download_content, lines 132-147: the artifacts it writes for one URL.
\* Without an open session line 135 raises, and line 146 catches it.
DownloadContent(f, url) ==
    IF f.session # "open" THEN {}
    ELSE LET response == GetAnswer(url)
             extension == GetFileExtension(response.content_type)
         IN  IF /\ response.status \in f.valid_status_codes
                /\ extension # "None"
             THEN { [url |-> url, extension |-> extension] }
             ELSE {}

\* Choice 4, lines 258-268, with download_discovered_endpoints, lines
\* 163-168: a new FuzzDriller is built, its found_endpoints iterated and a
\* download_content task run for each.
Choice4Download ==
    /\ pc = "menu"
    /\ choice' = "4"
    /\ base_url # None
    /\ fuzzer' = NewFuzzer(base_url, wordlist, output_file, methods,
                           valid_status_codes)
    /\ dl_tasks' = fuzzer'.found_endpoints
    /\ artifacts' = artifacts \cup
                      UNION { DownloadContent(fuzzer', u) : u \in dl_tasks' }
    /\ report' = "none"
    /\ UNCHANGED <<config, pc, error, tasks, sem, cur, files, wordlists>>

\* Choice 5, lines 270-272.
Choice5 ==
    /\ pc = "menu"
    /\ choice' = "5"
    /\ pc' = "exited"
    /\ UNCHANGED <<config, error, report, fuzzer, tasks, sem, cur, files,
                   dl_tasks, wordlists, artifacts>>

\* Any other input, lines 274-275.
InvalidChoice ==
    /\ pc = "menu"
    /\ choice' \in OtherChoices
    /\ UNCHANGED others

----------------------------------------------------------------------------
Menu ==
    \/ Choice1NoTarget
    \/ Choice1Start
    \/ \E b \in TargetInputs, w \in WordlistInputs, o \in OutputInputs,
          h \in JsonInputs, k \in JsonInputs, m \in MethodInputs,
          s \in StatusInputs : Choice2(b, w, o, h, k, m, s)
    \/ Choice3
    \/ Choice4NoTarget
    \/ Choice4Download
    \/ Choice5
    \/ InvalidChoice

Run ==
    \/ ProcessPaths
    \/ \E c \in Candidates : Acquire(c)
    \/ \E c \in Candidates, status \in StatusCodes : Respond(c, status)
    \/ \E c \in Candidates : Fail(c)
    \/ \E c \in Candidates : Finally(c)
    \/ \E c \in Candidates : Release(c)
    \/ Barrier
    \/ SaveNothing
    \/ SaveReport
    \/ SaveFails
    \/ StartReturns

Next == Menu \/ Run

Spec == Init /\ [][Next]_vars

----------------------------------------------------------------------------
(* The construction of the request URL, lines 58 and 72, over every target *)
(* and every wordlist line of at most MaxLen characters: the menu after a  *)
(* configuration step that set the target and the wordlist, and the runs   *)
(* started from it.                                                        *)

MaxLen == 3
TargetAlphabet == {"h", "/"}
PathAlphabet == {"b", "/"}
Strings(alphabet, n) == UNION { [1 .. k -> alphabet] : k \in 1 .. n }

UrlInit ==
    /\ base_url \in Strings(TargetAlphabet, MaxLen)
    /\ wordlist = "w.txt"
    /\ wordlists \in { [name \in {"w.txt"} |-> <<p>>] :
                          p \in Strings(PathAlphabet, MaxLen) }
    /\ output_file = DEFAULT_OUTPUT
    /\ headers = DEFAULT_HEADERS
    /\ cookies = DEFAULT_COOKIES
    /\ methods = DEFAULT_METHODS
    /\ valid_status_codes = VALID_STATUS_CODES
    /\ pc = "menu"
    /\ error = "none"
    /\ report = "none"
    /\ fuzzer = NoFuzzer
    /\ tasks = NoTasks
    /\ sem = MAX_CONCURRENT_REQUESTS
    /\ cur = NoTask
    /\ files = [f \in OutputFiles |->
                  IF f = DEFAULT_OUTPUT THEN Absent ELSE StaleReport]
    /\ dl_tasks = {}
    /\ artifacts = {}
    /\ choice = "2"

UrlNext == Choice1Start \/ Run

UrlSpec == UrlInit /\ [][UrlNext]_vars

----------------------------------------------------------------------------
(* Vocabulary of the properties.                                           *)

InRun == pc \in {"gather", "barrier", "saved"}
PastBarrier == pc \in {"barrier", "saved"}

InFlight == { c \in Candidates : tasks[c].st = "inflight" }
Waiting == { c \in Candidates : tasks[c].st = "pending" }
Holders == { c \in Candidates : Holding(c) }

HasOutcome(c) == tasks[c].outcome.kind # "none"
Failed(c) == tasks[c].outcome.kind = "failure"
Accepted(c) ==
    /\ tasks[c].outcome.kind = "status"
    /\ tasks[c].outcome.status \in fuzzer.valid_status_codes
Rejected(c) ==
    /\ tasks[c].outcome.kind = "status"
    /\ tasks[c].outcome.status \notin fuzzer.valid_status_codes

\* A run whose Candidates ended in all three ways and outnumber the slots.
MixedRun ==
    /\ Cardinality(Candidates) > MAX_CONCURRENT_REQUESTS
    /\ \E c \in Candidates : Failed(c)
    /\ \E c \in Candidates : Accepted(c)
    /\ \E c \in Candidates : Rejected(c)

TypeOK ==
    /\ pc \in {"menu", "start", "gather", "barrier", "saved", "exited",
               "crashed"}
    /\ error \in {"none", "JSONDecodeError", "ValueError", "OSError"}
    /\ report \in {"none", "No endpoints discovered.", "Results saved."}
    /\ sem \in 0 .. MAX_CONCURRENT_REQUESTS
    /\ cur = NoTask \/ cur \in Candidates
    /\ \A c \in Candidates :
         tasks[c].st \in {"pending", "inflight", "handled", "counted", "done"}
    /\ dl_tasks \subseteq fuzzer.found_endpoints
    /\ fuzzer.session \in {"None", "open", "closed"}
    /\ choice \in {"", "1", "2", "3", "4", "5"} \cup OtherChoices

----------------------------------------------------------------------------
\* C1: during a probing run, the Candidates that have passed the admission
\* gate and await their response never number more than the capacity of the
\* gate, however many Candidates the run has.
C1_ConcurrencyBound ==
    InRun => Cardinality(InFlight) <= MAX_CONCURRENT_REQUESTS

\* The gate is full while a further Candidate waits for a slot.
C1_Witness ==
    /\ pc = "gather"
    /\ Cardinality(InFlight) = MAX_CONCURRENT_REQUESTS
    /\ Waiting # {}

\* C2: once asyncio.gather has returned, completed_tasks equals total_tasks,
\* whatever the outcomes of the Candidates and the order they completed in.
C2_AllCounted ==
    PastBarrier => fuzzer.completed_tasks = fuzzer.total_tasks

\* gather has returned from a run with accepted, rejected and failed
\* Candidates.
C2_Witness ==
    /\ pc = "barrier"
    /\ MixedRun
    /\ fuzzer.completed_tasks = Cardinality(Candidates)

\* C3: a Candidate whose request raised does not end the run, adds no URL
\* of its own to found_endpoints and is counted; every other Candidate still
\* runs to its own outcome, and that outcome alone decides whether its URL
\* is in found_endpoints.
C3_FailureIsolated ==
    \A c \in Candidates : Failed(c) =>
        /\ pc # "crashed" \/ error = "OSError"
        /\ UrlOf(c) \in fuzzer.found_endpoints =>
              \E d \in Candidates \ {c} : UrlOf(d) = UrlOf(c) /\ Accepted(d)
        /\ tasks[c].st \in {"counted", "done"} => fuzzer.completed_tasks >=
              Cardinality({ d \in Candidates :
                              tasks[d].st \in {"counted", "done"} })
        /\ PastBarrier =>
              \A d \in Candidates \ {c} :
                  /\ tasks[d].st = "done"
                  /\ HasOutcome(d)
                  /\ Accepted(d) => UrlOf(d) \in fuzzer.found_endpoints
                  /\ Rejected(d) /\ UrlOf(d) \in fuzzer.found_endpoints =>
                        \E e \in Candidates : UrlOf(e) = UrlOf(d) /\ Accepted(e)

\* A request has failed and its task has returned while another Candidate
\* is in flight and a third still waits for a slot.
C3_Witness ==
    /\ pc = "gather"
    /\ \E c, d, e \in Candidates :
          /\ Failed(c) /\ tasks[c].st = "done"
          /\ tasks[d].st = "inflight"
          /\ tasks[e].st = "pending"

\* C4: during a run a URL is in found_endpoints only if a Candidate for that
\* URL got a response whose status is in valid_status_codes; once gather has
\* returned, the URL of every Candidate with such a response is in the set;
\* and the report lists the set in ascending lexicographic order.
C4_OnlyAccepted ==
    /\ InRun =>
          \A u \in fuzzer.found_endpoints :
              \E c \in Candidates : UrlOf(c) = u /\ Accepted(c)
    /\ PastBarrier =>
          \A c \in Candidates : Accepted(c) => UrlOf(c) \in fuzzer.found_endpoints
    /\ pc = "saved" /\ report = "Results saved." =>
          LET lines == files[fuzzer.output_file].lines
          IN  /\ Range(lines) = fuzzer.found_endpoints
              /\ \A i, j \in DOMAIN lines : i < j => StrLess(lines[i], lines[j])

\* A report of two URLs has been written by a run in which another
\* Candidate was rejected or failed.
C4_Witness ==
    /\ pc = "saved"
    /\ report = "Results saved."
    /\ Len(files[fuzzer.output_file].lines) = 2
    /\ \E c \in Candidates : Rejected(c)
    /\ \E c \in Candidates : Failed(c)

\* C5: choosing the download phase after a probing run that found endpoints
\* creates a download task for each endpoint that run found.
C5_DownloadsDiscovered ==
    [][ (fuzzer.found_endpoints # {} /\ Choice4Download)
            => dl_tasks' = fuzzer.found_endpoints ]_vars

\* Input of the configuration step that json.loads or int() does not accept.
Malformed(h, k, s) ==
    \/ h # "" /\ ~JsonOk(h)
    \/ k # "" /\ ~JsonOk(k)
    \/ \E i \in DOMAIN s : ~IntOk(s[i])

\* C6: a configuration step that is given malformed headers, cookies or
\* status codes returns to the menu with every configuration value as it
\* was before the step.
C6_ConfigErrorHarmless ==
    [][ \A b \in TargetInputs, w \in WordlistInputs, o \in OutputInputs,
           h \in JsonInputs, k \in JsonInputs, m \in MethodInputs,
           s \in StatusInputs :
           (Malformed(h, k, s) /\ Choice2(b, w, o, h, k, m, s))
               => (pc' = "menu" /\ UNCHANGED config) ]_vars

\* C7: a probing run that has passed its barrier has written the report or
\* logged the no-results warning when _save_results is over, and no failure
\* of a request or of the file system ends the process.
C7_RunNeverFatal ==
    /\ pc = "saved" => report \in {"No endpoints discovered.", "Results saved."}
    /\ pc = "crashed" => error \in {"JSONDecodeError", "ValueError"}

\* A run is over: _save_results has returned, or open() has raised in it.
RunEnded == pc = "saved" \/ (pc = "crashed" /\ error = "OSError")

ReportOf(found, file) ==
    /\ file.exists
    /\ Range(file.lines) = found
    /\ Len(file.lines) = Cardinality(found)

ConfirmedTwice(u) ==
    \E c, d \in Candidates :
        /\ c # d
        /\ UrlOf(c) = u /\ UrlOf(d) = u
        /\ Accepted(c) /\ Accepted(d)

\* C9: found_endpoints holds a URL that was confirmed under two methods, in
\* whichever order, exactly once, and the report has that URL on exactly one
\* line; no report has the same URL on two lines.
C9_NoDuplicates ==
    /\ InRun =>
          \A c \in Candidates :
              ConfirmedTwice(UrlOf(c)) =>
                  Cardinality({ u \in fuzzer.found_endpoints : u = UrlOf(c) }) = 1
    /\ pc = "saved" /\ report = "Results saved." =>
          LET lines == files[fuzzer.output_file].lines
          IN  \A i, j \in DOMAIN lines : lines[i] = lines[j] => i = j

\* A report has been written by a run that confirmed one URL under both of
\* its methods.
C9_Witness ==
    /\ pc = "saved"
    /\ report = "Results saved."
    /\ \E c \in Candidates :
          /\ ConfirmedTwice(UrlOf(c))
          /\ Cardinality({ i \in DOMAIN files[fuzzer.output_file].lines :
                             files[fuzzer.output_file].lines[i] = UrlOf(c) }) = 1

\* C10: every slot of the gate is free or held by a task that has not
\* returned yet, whatever the outcomes of the tasks that have; once gather
\* has returned all slots are free; and a Candidate waits only while tasks
\* that have not returned hold every slot.
C10_SlotsReleased ==
    InRun =>
        /\ sem + Cardinality(Holders) = MAX_CONCURRENT_REQUESTS
        /\ PastBarrier => sem = MAX_CONCURRENT_REQUESTS
        /\ Waiting # {} /\ sem = 0 =>
              Cardinality({ c \in Candidates :
                              tasks[c].st \in {"inflight", "handled", "counted"} })
                  = MAX_CONCURRENT_REQUESTS

\* gather has returned from a run with more Candidates than slots, some of
\* which failed, and every slot is free.
C10_Witness ==
    /\ pc = "barrier"
    /\ MixedRun
    /\ sem = MAX_CONCURRENT_REQUESTS

\* The Candidates of the run: every loaded path under every position of the
\* method list.
Product == LoadWordlist(fuzzer.wordlist) \X (1 .. Len(fuzzer.methods))

Counted == { c \in Candidates : tasks[c].st \in {"counted", "done"} }

\* C12: during a probing run completed_tasks is the number of Candidates
\* whose finally block has run.  It changes only by one, in a step of one
\* Candidate that has its outcome (and whose URL, if accepted, is in
\* found_endpoints) and still holds its slot, a step that touches neither
\* the gate, the set nor another task; and a task returns, freeing its
\* slot, only after it has been counted.
C12_CountedOnce ==
    /\ [](InRun =>
            /\ fuzzer.completed_tasks = Cardinality(Counted)
            /\ \A c \in Counted :
                  /\ HasOutcome(c)
                  /\ Accepted(c) => UrlOf(c) \in fuzzer.found_endpoints)
    /\ [][(pc = "gather" /\ fuzzer'.completed_tasks # fuzzer.completed_tasks)
             => /\ fuzzer'.completed_tasks = fuzzer.completed_tasks + 1
                /\ fuzzer'.found_endpoints = fuzzer.found_endpoints
                /\ sem' = sem
                /\ \E c \in Candidates :
                      /\ tasks[c].st = "handled" /\ tasks'[c].st = "counted"
                      /\ HasOutcome(c)
                      /\ Accepted(c) => UrlOf(c) \in fuzzer.found_endpoints
                      /\ tasks'[c].outcome = tasks[c].outcome
                      /\ \A d \in Candidates \ {c} : tasks'[d] = tasks[d]
          ]_vars
    /\ [][pc = "gather" =>
             \A c \in Candidates :
                 (tasks[c].st # "done" /\ tasks'[c].st = "done")
                     => /\ tasks[c].st = "counted"
                        /\ fuzzer'.completed_tasks = fuzzer.completed_tasks
                        /\ sem' = sem + 1]_vars

\* An accepted Candidate has been counted and still holds its slot, after
\* a failed Candidate has returned and while another waits.
C12_Witness ==
    /\ pc = "gather"
    /\ fuzzer.completed_tasks = 2
    /\ \E c, d, e \in Candidates :
          /\ tasks[c].st = "counted" /\ Accepted(c)
          /\ UrlOf(c) \in fuzzer.found_endpoints
          /\ tasks[d].st = "done" /\ Failed(d)
          /\ tasks[e].st = "pending"
    /\ sem = MAX_CONCURRENT_REQUESTS - 1

\* C13: total_tasks is the number of paths times the number of methods
\* from the moment the tasks exist, no task exists before it is set, and it
\* does not change while the run lasts; completed_tasks is always between 0
\* and total_tasks and never decreases while the run lasts.
C13_ProgressBounds ==
    /\ [](InRun =>
            /\ fuzzer.total_tasks =
                  Cardinality(LoadWordlist(fuzzer.wordlist)) * Len(fuzzer.methods)
            /\ fuzzer.total_tasks = Cardinality(Candidates))
    /\ [](pc = "start" => tasks = NoTasks)
    /\ [](0 <= fuzzer.completed_tasks
            /\ fuzzer.completed_tasks <= fuzzer.total_tasks)
    /\ [][(InRun /\ InRun') =>
             /\ fuzzer'.total_tasks = fuzzer.total_tasks
             /\ fuzzer'.completed_tasks >= fuzzer.completed_tasks]_vars

\* A run of two paths under two methods is half counted.
C13_Witness ==
    /\ pc = "gather"
    /\ fuzzer.total_tasks = 4
    /\ Len(fuzzer.methods) = 2
    /\ fuzzer.completed_tasks = 2
    /\ Waiting # {}

\* s without its last character if that is a slash.
StripOneTrailing(s) ==
    IF s # <<>> /\ s[Len(s)] = "/" THEN SubSeq(s, 1, Len(s) - 1) ELSE s

\* s without its first character if that is a slash.
StripOneLeading(s) == IF s # <<>> /\ s[1] = "/" THEN Tail(s) ELSE s

\* The characters of s after position k are its trailing slashes, all of
\* them.
TrailingSlashesAfter(s, k) ==
    /\ \A i \in k + 1 .. Len(s) : s[i] = "/"
    /\ k = 0 \/ s[k] # "/"

\* The characters of s before position k are its leading slashes, all of
\* them.
LeadingSlashesBefore(s, k) ==
    /\ \A i \in 1 .. k - 1 : s[i] = "/"
    /\ k = Len(s) + 1 \/ s[k] # "/"

\* C14 as claimed: the URL a Candidate has requested is the target without
\* one trailing slash, a slash, and the path without one leading slash.
C14_StripsOneSlash ==
    \A c \in Candidates :
        tasks[c].st # "pending" =>
            tasks[c].url = StripOneTrailing(base_url) \o <<"/">>
                               \o StripOneLeading(c[1])

\* C14 as amended: the URL a Candidate has requested is the target without
\* any of its trailing slashes, one slash, and the path without any of its
\* leading slashes; every discovered endpoint is such a URL.
C14_StripsEverySlash ==
    /\ \A c \in Candidates :
          tasks[c].st # "pending" =>
              \E i \in 0 .. Len(base_url), j \in 1 .. Len(c[1]) + 1 :
                  /\ TrailingSlashesAfter(base_url, i)
                  /\ LeadingSlashesBefore(c[1], j)
                  /\ tasks[c].url = SubSeq(base_url, 1, i) \o <<"/">>
                                        \o SubSeq(c[1], j, Len(c[1]))
    /\ InRun =>
          \A u \in fuzzer.found_endpoints :
              \E c \in Candidates : tasks[c].url = u

\* The request for the wordlist line //b against the target h// has been
\* issued, to h/b.
C14_Witness ==
    /\ base_url = <<"h", "/", "/">>
    /\ \E c \in Candidates :
          /\ c[1] = <<"/", "/", "b">>
          /\ tasks[c].st = "inflight"
          /\ tasks[c].url = <<"h", "/", "b">>

\* C15: whenever _save_results has been entered, is over or has raised,
\* every Candidate of the run has returned; and the log line of the report
\* and the report files change only in a step of _save_results, taken
\* when every Candidate has returned.
C15_SaveAfterAll ==
    /\ []((PastBarrier \/ (pc = "crashed" /\ error = "OSError")) =>
            /\ Candidates = Product
            /\ \A c \in Candidates : tasks[c].st = "done")
    /\ [][((report' # report /\ report' # "none") \/ files' # files) =>
             /\ pc = "barrier"
             /\ \A c \in Candidates : tasks[c].st = "done"]_vars

\* The report of a run of four Candidates, one of them failed, has been
\* written and all four have returned.
C15_Witness ==
    /\ pc = "saved"
    /\ report = "Results saved."
    /\ Cardinality(Candidates) = 4
    /\ \E c \in Candidates : Failed(c)
    /\ \A c \in Candidates : tasks[c].st = "done"

\* The probes of the URL of c other than c itself.
OtherProbes(c) == { d \in Candidates \ {c} : UrlOf(d) = UrlOf(c) }

\* C16 as claimed: when the last of the probes of a URL gets its outcome,
\* the URL is in found_endpoints only if that outcome is an accepted status
\* (after that step no probe of the URL is left to change the set, so this
\* is the set the barrier sees).
C16_LatestOutcomeDecides ==
    [][pc = "gather" =>
         \A c \in Candidates :
             (/\ ~HasOutcome(c)
              /\ tasks'[c].outcome.kind # "none"
              /\ \A d \in OtherProbes(c) : HasOutcome(d))
                 => (UrlOf(c) \in fuzzer'.found_endpoints
                        => /\ tasks'[c].outcome.kind = "status"
                           /\ tasks'[c].outcome.status
                                 \in fuzzer.valid_status_codes)]_vars

\* C16 as amended: found_endpoints only grows during a run, so a URL that
\* one probe confirmed stays in the set whatever a later probe of the same
\* URL returns; once gather has returned a URL is in the set exactly when
\* at least one of its probes got an accepted status.
C16_AnyAcceptedDecides ==
    /\ [][(InRun /\ InRun') =>
             fuzzer.found_endpoints \subseteq fuzzer'.found_endpoints]_vars
    /\ [](PastBarrier =>
            \A c \in Candidates :
                UrlOf(c) \in fuzzer.found_endpoints <=>
                    (Accepted(c) \/ \E d \in OtherProbes(c) : Accepted(d)))

\* gather has returned; a URL is in found_endpoints that one method
\* confirmed and for which the other method got a rejected status.
C16_Witness ==
    /\ pc = "barrier"
    /\ \E c \in Candidates :
          /\ Accepted(c)
          /\ UrlOf(c) \in fuzzer.found_endpoints
          /\ \E d \in OtherProbes(c) : Rejected(d)

\* The phases of the run of the object `fuzzer`.
Idle == 0
Dispatching == 1
Draining == 2
Complete == 3

Phase ==
    IF pc \in {"barrier", "saved"} \/ fuzzer.session = "closed" THEN Complete
    ELSE IF pc = "gather" /\ Waiting # Candidates
    THEN IF Waiting # {} THEN Dispatching ELSE Draining
    ELSE Idle

\* The menu constructs a FuzzDriller and binds it to `fuzzer`, lines 212 and
\* 259; the object of the run before is left behind as it is.
NewObject == pc = "menu" /\ base_url # None /\ choice' \in {"1", "4"}

\* C17: the phase of a run never goes back; the run becomes Complete only
\* by the return of gather with every Candidate returned; and from then on,
\* until the menu constructs a new object, no task changes and
\* completed_tasks, total_tasks and found_endpoints stay as they are.
C17_ForwardOnly ==
    /\ [][NewObject \/ Phase' >= Phase]_vars
    /\ [][(Phase # Complete /\ Phase' = Complete) =>
             /\ Phase = Draining
             /\ pc = "gather" /\ pc' = "barrier"
             /\ \A c \in Candidates : tasks[c].st = "done"]_vars
    /\ [][(Phase = Complete /\ ~NewObject) =>
             /\ fuzzer'.completed_tasks = fuzzer.completed_tasks
             /\ fuzzer'.total_tasks = fuzzer.total_tasks
             /\ fuzzer'.found_endpoints = fuzzer.found_endpoints
             /\ \A c \in Candidates \cap DOMAIN tasks' :
                   tasks'[c] = tasks[c]]_vars

\* A run of four Candidates that found an endpoint is Complete, start()
\* has returned and the configuration has been looked at since.
C17_Witness ==
    /\ Phase = Complete
    /\ pc = "menu"
    /\ choice = "3"
    /\ fuzzer.total_tasks = 4
    /\ fuzzer.completed_tasks = 4
    /\ fuzzer.found_endpoints # {}

\* The target's answer to the GET of u would give an artifact: its status
\* is in the policy and its Content-Type maps to html, js or php.
Downloadable(u) ==
    /\ GetAnswer(u).status \in valid_status_codes
    /\ GetFileExtension(GetAnswer(u).content_type) \in {"html", "js", "php"}

\* C18: the download phase chosen after a probing run leaves an artifact
\* for an endpoint that run discovered exactly when the answer to its GET
\* has a status in the policy and a Content-Type of a known extension, and
\* the phase returns to the menu.
C18_ArtifactIffDownloadable ==
    [][Choice4Download =>
         /\ pc' = "menu"
         /\ \A u \in fuzzer.found_endpoints :
               (\E a \in artifacts' : a.url = u) <=> Downloadable(u)]_vars

\* The URLs that a Candidate of the present run got an accepted status for.
ConfirmedNow == { tasks[c].url : c \in { d \in Candidates : Accepted(d) } }

\* C19: a probing run started from the menu has completed_tasks = 0,
\* total_tasks = 0 and an empty found_endpoints when start() is entered,
\* has counted and found nothing while no Candidate has been admitted,
\* holds only URLs confirmed by its own Candidates at any time, and writes
\* a report of exactly those.
C19_FreshRun ==
    /\ pc = "start" =>
          /\ fuzzer.completed_tasks = 0
          /\ fuzzer.total_tasks = 0
          /\ fuzzer.found_endpoints = {}
    /\ pc = "gather" /\ Waiting = Candidates =>
          /\ fuzzer.completed_tasks = 0
          /\ fuzzer.found_endpoints = {}
    /\ InRun => fuzzer.found_endpoints = ConfirmedNow
    /\ pc = "saved" /\ report = "Results saved." =>
          Range(files[fuzzer.output_file].lines) = ConfirmedNow

\* A second run, made after the configuration was edited, has written its
\* report to out.txt; the report of the run before it, in the default file,
\* has a URL that the second run did not confirm and does not report.
C19_Witness ==
    /\ pc = "saved"
    /\ report = "Results saved."
    /\ fuzzer.output_file = "out.txt"
    /\ files[DEFAULT_OUTPUT].exists
    /\ \E u \in Range(files[DEFAULT_OUTPUT].lines) :
          /\ u \notin fuzzer.found_endpoints
          /\ u \notin Range(files["out.txt"].lines)

\* A request has been issued or a download task created.
Requested ==
    \/ \E c \in Candidates : tasks[c].reqs > 0
    \/ dl_tasks # {}

\* C20: while no target is set the program is at the menu or has left it,
\* no FuzzDriller exists, no run has tasks and no request has been issued;
\* and a step taken at the menu with no target set starts nothing: choices
\* 1 and 4 change nothing but the choice read and stay at the menu.
C20_NoTargetNoRequest ==
    /\ [](base_url = None =>
            /\ pc \in {"menu", "exited", "crashed"}
            /\ ~fuzzer.bound
            /\ tasks = NoTasks
            /\ ~Requested
            /\ artifacts = {})
    /\ [][(pc = "menu" /\ base_url = None) =>
             /\ pc' \in {"menu", "exited", "crashed"}
             /\ UNCHANGED <<fuzzer, tasks, dl_tasks, files, artifacts, report>>
             /\ choice' \in {"1", "4"} => UNCHANGED others]_vars

\* Choice 4 has been made with no target set, after a configuration step
\* that set other values, and the program is at the menu.
C20_Witness ==
    /\ pc = "menu"
    /\ base_url = None
    /\ choice = "4"
    /\ methods # DEFAULT_METHODS
    /\ ~fuzzer.bound

====
